---- MODULE Spec2Model ----
(***************************************************************************)
(* ceph-ansible-copilot: the result aggregator (ResultCallback), the       *)
(* playbook runners (CoPilotPlayBook, DynamicPlaybook) of                  *)
(* ansible/playbook.py and the host utilities (setup_ansible_cfg,          *)
(* restore_ansible_cfg, dns_ok, check_dns, check_ssh_access) of            *)
(* utils/utils.py, each as a state machine of its own specification.       *)
(***************************************************************************)
EXTENDS Integers, Sequences, FiniteSets, TLC

VARIABLES
    \* ResultCallback (playbook.py 20-127)
    logger,       \* self.logger: "None" or "Logger"
    pb_callout,   \* self.pb_callout: "None" or "callable"
    stats,        \* self.stats
    log,          \* the records the logger has been handed
    delivered,    \* per-host events the engine has delivered (handler calls)
    callout,      \* calls of pb_callout: their number and the stats last seen
    \* DynamicPlaybook (playbook.py 134-230)
    playbook,     \* self.playbook: None or the loaded play
    rc,           \* self.rc
    pc,           \* where run() stands: "idle", "try", "engine", "finally"
    tqm,          \* run()'s local tqm: "None" or "tqm"
    pending,      \* the exception in flight inside run(), "none" if none
    created,      \* TaskQueueManager objects constructed so far
    cleaned,      \* cleanup() calls so far
    engine,       \* what tqm.run did in the latest run()
    outcome,      \* how the latest setup() or run() call ended
    \* setup_ansible_cfg / restore_ansible_cfg (utils.py 178-237)
    cfg,          \* the file ansible.cfg: its content, or no file
    bak,          \* the file ansible.cfg_bak: its content, or no file
    orig,         \* the content ansible.cfg had at the start
    calls,        \* the calls made so far and how each ended
    \* dns_ok (utils.py 75-98)
    probes,       \* the dns_ok calls so far, each with its own queue and thread
    \* check_dns (utils.py 117-118)
    dns_scan,     \* the check_dns call: its host_list, its probes, its result
    \* check_ssh_access (utils.py 126-159)
    host_list,    \* the argument
    sshpc,        \* "idle", "connect", "close", "returned", "raised"
    idx,          \* the loop's position in host_list
    ssh_errors,   \* the local list of failed hosts
    connected,    \* whether the client holds an open connection
    attempts,     \* the connect calls made: host and how each ended
    closes,       \* client.close() calls so far
    ssh_result,   \* the value returned
    \* bytes2human (utils.py 20-49)
    b2h_args,     \* the arguments: in_bytes and target_unit
    b2h_out,      \* how the call ended: the string returned or the exception
    \* expand_hosts (utils.py 101-114)
    host_text,    \* the argument, a sequence of characters
    exp_out,      \* how the call ended: the list returned or the exception
    \* CoPilotPlayBook and StaticPlaybook (playbook.py 134-189, 233-249)
    runner,       \* the object: its class and the attributes __init__ sets
    runner_calls, \* method calls made on it so far
    runner_out    \* how the latest call ended

aggVars == <<logger, pb_callout, stats, log, delivered, callout>>

runVars == <<playbook, rc, pc, tqm, pending, created, cleaned, engine, outcome>>

cfgVars == <<cfg, bak, orig, calls>>

dnsVars == <<probes, dns_scan>>

sshVars == <<host_list, sshpc, idx, ssh_errors, connected, attempts, closes,
             ssh_result>>

b2hVars == <<b2h_args, b2h_out>>

expVars == <<host_text, exp_out>>

baseVars == <<runner, runner_calls, runner_out>>

vars == <<aggVars, runVars, cfgVars, dnsVars, sshVars, b2hVars, expVars,
          baseVars>>

notAgg == <<runVars, cfgVars, dnsVars, sshVars, b2hVars, expVars,
           baseVars>>

notRun == <<aggVars, cfgVars, dnsVars, sshVars, b2hVars, expVars,
           baseVars>>

notCfg == <<aggVars, runVars, dnsVars, sshVars, b2hVars, expVars,
           baseVars>>

notDns == <<aggVars, runVars, cfgVars, sshVars, b2hVars, expVars,
           baseVars>>

notSsh == <<aggVars, runVars, cfgVars, dnsVars, b2hVars, expVars,
           baseVars>>

notB2h == <<aggVars, runVars, cfgVars, dnsVars, sshVars, expVars,
           baseVars>>

notBase == <<aggVars, runVars, cfgVars, dnsVars, sshVars, b2hVars, expVars>>

notExp == <<aggVars, runVars, cfgVars, dnsVars, sshVars, b2hVars,
           baseVars>>

(***************************************************************************)
(* Bounds                                                                  *)
(***************************************************************************)
MaxEvents == 3

MaxRuns == 2

MaxCalls == 3

MaxProbes == 2

MaxHosts == 3

(***************************************************************************)
(* Python dictionaries are functions; `del d[k]` removes k from the domain *)
(***************************************************************************)
DelKey(d, k) == [x \in DOMAIN d \ {k} |-> d[x]]

Put(d, k, v) == [x \in DOMAIN d \cup {k} |-> IF x = k THEN v ELSE d[x]]

(***************************************************************************)
(* The engine's inputs: hosts, task names and raw result payloads.  A      *)
(* payload is a dict that always has a body and may have a 'warnings' list *)
(* of strings and a 'deprecations' list of keyword dicts.                  *)
(***************************************************************************)
Hosts == {"h1", "h2"}

TaskNames == {"t1", "t2"}

Bodies == {"a", "b"}

WarningLists == {<<>>, <<"w">>}

DepMsgOnly == [msg |-> "d"]

DepWithVersion == [msg |-> "d", version |-> "2.8"]

DeprecationLists == {<<>>, <<DepMsgOnly>>, <<DepWithVersion>>}

Payloads ==
    {[body |-> b] : b \in Bodies}
    \cup {[body |-> "a", warnings |-> w] : w \in WarningLists}
    \cup {[body |-> "a", deprecations |-> d] : d \in DeprecationLists}
    \cup {[body |-> "a", warnings |-> <<"w">>, deprecations |-> <<DepMsgOnly>>]}

(***************************************************************************)
(* The deprecations loop hands each entry to logger.warning as keyword     *)
(* arguments: the entry must name msg, and the logging call takes no       *)
(* keyword but exc_info and extra (anything else is a TypeError).          *)
(* The logger is one enabled for warnings.                                 *)
(***************************************************************************)
LoggerAcceptsKeywords(kw) ==
    /\ "msg" \in DOMAIN kw
    /\ DOMAIN kw \subseteq {"msg", "exc_info", "extra"}

(***************************************************************************)
(* _handle_warnings, lines 63-66: the 'warnings' half.  With no logger the *)
(* first self.logger.warning raises AttributeError on None.                *)
(***************************************************************************)
HandleWarningsField(res) ==
    IF "warnings" \in DOMAIN res /\ res["warnings"] # <<>>
    THEN IF logger = "None"
         THEN [res |-> res, log |-> {}, exc |-> "AttributeError"]
         ELSE [res |-> DelKey(res, "warnings"),
               log |-> {[level |-> "warning", msg |-> res["warnings"][i]] :
                           i \in 1..Len(res["warnings"])},
               exc |-> "none"]
    ELSE [res |-> res, log |-> {}, exc |-> "none"]

(***************************************************************************)
(* _handle_warnings, lines 67-70: the 'deprecations' half.  The loop logs  *)
(* entry after entry and stops at the first one the logger call rejects.   *)
(***************************************************************************)
FirstRejected(deps) ==
    LET bad == {i \in 1..Len(deps) : ~LoggerAcceptsKeywords(deps[i])}
    IN  IF bad = {} THEN 0 ELSE CHOOSE i \in bad : \A j \in bad : i <= j

HandleDeprecationsField(res) ==
    IF "deprecations" \in DOMAIN res /\ res["deprecations"] # <<>>
    THEN IF logger = "None"
         THEN [res |-> res, log |-> {}, exc |-> "AttributeError"]
         ELSE LET deps == res["deprecations"]
                  stop == FirstRejected(deps)
                  upto == IF stop = 0 THEN Len(deps) ELSE stop - 1
                  out  == {[level |-> "warning", msg |-> deps[i]["msg"]] :
                              i \in 1..upto}
              IN  IF stop = 0
                  THEN [res |-> DelKey(res, "deprecations"), log |-> out,
                        exc |-> "none"]
                  ELSE [res |-> res, log |-> out, exc |-> "TypeError"]
    ELSE [res |-> res, log |-> {}, exc |-> "none"]

\* _handle_warnings with the two `del` statements forgotten
HandleWarningsLogOnly(res) ==
    LET w == HandleWarningsField(res)
        d == HandleDeprecationsField(res)
    IN  IF w.exc # "none"
        THEN w
        ELSE [res |-> res, log |-> w.log \cup d.log, exc |-> d.exc]

(***************************************************************************)
(* _handle_warnings(res): the payload as it leaves (mutated in place), the *)
(* log lines written and the exception raised, if any.                     *)
(***************************************************************************)
HandleWarnings(res) ==
    LET w == HandleWarningsField(res)
    IN  IF w.exc # "none"
        THEN w
        ELSE LET d == HandleDeprecationsField(w.res)
             IN  [res |-> d.res, log |-> w.log \cup d.log, exc |-> d.exc]

(***************************************************************************)
(* _log_msg(result, msg_type): "<host> : <payload>" at the given level     *)
(***************************************************************************)
LogMsg(host, res, msg_type) ==
    [level |-> IF msg_type = "info" THEN "info" ELSE "error",
     host |-> host, payload |-> res]

(***************************************************************************)
(* ResultCallback.__init__: the stats record, all counts zero              *)
(***************************************************************************)
InitStats ==
    [task_state |-> [success |-> 0, failed |-> 0, skipped |-> 0,
                     unreachable |-> 0],
     failures |-> <<>>,
     successes |-> <<>>,
     task_name |-> ""]

InitAgg ==
    /\ logger \in {"None", "Logger"}
    /\ pb_callout \in {"None", "callable"}
    /\ stats = InitStats
    /\ log = {}
    /\ delivered = 0
    /\ callout = [n |-> 0, stats |-> InitStats]

(***************************************************************************)
(* `if self.pb_callout: self.pb_callout(self.stats)` with the stats s the  *)
(* handler has reached                                                     *)
(***************************************************************************)
Notify(s) ==
    IF pb_callout # "None"
    THEN [n |-> callout.n + 1, stats |-> s]
    ELSE callout

(***************************************************************************)
(* The per-host handlers.  A handler that raises leaves self.stats as it   *)
(* was: in each of them _handle_warnings runs before any update.           *)
(***************************************************************************)
v2_runner_on_ok(host, res) ==
    LET hw == HandleWarnings(res)
        s  == [stats EXCEPT !.successes = Put(@, host, hw.res),
                            !.task_state.success = @ + 1]
    IN  /\ delivered < MaxEvents
        /\ delivered' = delivered + 1
        /\ log' = log \cup hw.log
        /\ IF hw.exc # "none"
           THEN UNCHANGED <<stats, callout>>
           ELSE /\ stats' = s
                /\ callout' = Notify(s)
        /\ UNCHANGED <<logger, pb_callout>>
        /\ UNCHANGED notAgg

\* v2_runner_on_failed that stores the payload as the host's only failure
\* instead of appending it
v2_runner_on_failed_overwriting(host, res) ==
    LET hw == HandleWarnings(res)
        s  == [stats EXCEPT !.failures = Put(@, host, <<hw.res>>),
                            !.task_state.failed = @ + 1]
    IN  /\ delivered < MaxEvents
        /\ delivered' = delivered + 1
        /\ IF hw.exc # "none"
           THEN /\ log' = log \cup hw.log
                /\ UNCHANGED <<stats, callout>>
           ELSE /\ log' = IF logger # "None"
                          THEN log \cup hw.log \cup {LogMsg(host, hw.res, "error")}
                          ELSE log \cup hw.log
                /\ stats' = s
                /\ callout' = Notify(s)
        /\ UNCHANGED <<logger, pb_callout>>
        /\ UNCHANGED notAgg

v2_runner_on_failed(host, res) ==
    LET hw == HandleWarnings(res)
        f  == IF host \in DOMAIN stats.failures
              THEN Put(stats.failures, host, Append(stats.failures[host], hw.res))
              ELSE Put(stats.failures, host, <<hw.res>>)
        s  == [stats EXCEPT !.failures = f, !.task_state.failed = @ + 1]
    IN  /\ delivered < MaxEvents
        /\ delivered' = delivered + 1
        /\ IF hw.exc # "none"
           THEN /\ log' = log \cup hw.log
                /\ UNCHANGED <<stats, callout>>
           ELSE /\ log' = IF logger # "None"
                          THEN log \cup hw.log \cup {LogMsg(host, hw.res, "error")}
                          ELSE log \cup hw.log
                /\ stats' = s
                /\ callout' = Notify(s)
        /\ UNCHANGED <<logger, pb_callout>>
        /\ UNCHANGED notAgg

v2_runner_on_unreachable(host, res) ==
    LET hw == HandleWarnings(res)
        s  == [stats EXCEPT !.task_state.unreachable = @ + 1]
    IN  /\ delivered < MaxEvents
        /\ delivered' = delivered + 1
        /\ log' = log \cup hw.log
        /\ IF hw.exc # "none"
           THEN UNCHANGED <<stats, callout>>
           ELSE /\ stats' = s
                /\ callout' = Notify(s)
        /\ UNCHANGED <<logger, pb_callout>>
        /\ UNCHANGED notAgg

\* v2_runner_on_skipped that keeps the payload the way v2_runner_on_ok does
v2_runner_on_skipped_retaining(host, res) ==
    LET hw == HandleWarnings(res)
        s  == [stats EXCEPT !.successes = Put(@, host, hw.res),
                            !.task_state.skipped = @ + 1]
    IN  /\ delivered < MaxEvents
        /\ delivered' = delivered + 1
        /\ log' = log \cup hw.log
        /\ IF hw.exc # "none"
           THEN UNCHANGED <<stats, callout>>
           ELSE /\ stats' = s
                /\ callout' = Notify(s)
        /\ UNCHANGED <<logger, pb_callout>>
        /\ UNCHANGED notAgg

v2_runner_on_skipped(host, res) ==
    LET hw == HandleWarnings(res)
        s  == [stats EXCEPT !.task_state.skipped = @ + 1]
    IN  /\ delivered < MaxEvents
        /\ delivered' = delivered + 1
        /\ log' = log \cup hw.log
        /\ IF hw.exc # "none"
           THEN UNCHANGED <<stats, callout>>
           ELSE /\ stats' = s
                /\ callout' = Notify(s)
        /\ UNCHANGED <<logger, pb_callout>>
        /\ UNCHANGED notAgg

playbook_on_task_start(name) ==
    /\ stats' = [stats EXCEPT !.task_name = name]
    /\ UNCHANGED <<logger, pb_callout, log, delivered, callout>>
    /\ UNCHANGED notAgg

OnOk == \E h \in Hosts, p \in Payloads : v2_runner_on_ok(h, p)

OnFailed == \E h \in Hosts, p \in Payloads : v2_runner_on_failed(h, p)

OnUnreachable == \E h \in Hosts, p \in Payloads : v2_runner_on_unreachable(h, p)

OnSkipped == \E h \in Hosts, p \in Payloads : v2_runner_on_skipped(h, p)

OnTaskStart == \E n \in TaskNames : playbook_on_task_start(n)

NextAgg == OnOk \/ OnFailed \/ OnUnreachable \/ OnSkipped \/ OnTaskStart

(***************************************************************************)
(* Playbook runner.  Python values carry their type; None is a value of    *)
(* its own.                                                                *)
(***************************************************************************)
PyNone == [type |-> "NoneType"]

PyList(items) == [type |-> "list", items |-> items]

TaskValues ==
    {PyNone}
    \cup {[type |-> t, items |-> i] :
             t \in {"list", "tuple", "dict", "str"},
             i \in {<<>>, <<"t1">>, <<"t1", "t2">>}}

PlayNames == {"Dynamic playbook", "n1"}

\* the engine's TaskQueueManager.run results: RUN_OK, RUN_FAILED_HOSTS,
\* RUN_UNREACHABLE_HOSTS
ReturnCodes == {0, 2, 4}

\* Python truth value: None is false, a container is true when non-empty
Truthy(v) == v.type # "NoneType" /\ Len(v.items) > 0

IsInstanceList(v) == v.type = "list"

\* setup's guard with the emptiness test forgotten: `pb_tasks is None or ...`
MissingOrInvalidTasksNoneOnly(pb_tasks) ==
    pb_tasks.type = "NoneType" \/ ~IsInstanceList(pb_tasks)

(***************************************************************************)
(* DynamicPlaybook.setup, line 197:                                        *)
(* `not pb_tasks or not isinstance(pb_tasks, list)`                        *)
(***************************************************************************)
MissingOrInvalidTasks(pb_tasks) ==
    ~Truthy(pb_tasks) \/ ~IsInstanceList(pb_tasks)

\* lines 202-211: play_src, as Play().load hands it back
LoadPlay(pb_name, pb_tasks) ==
    [type |-> "Play", name |-> pb_name, hosts |-> "all",
     gather_facts |-> "no", tasks |-> pb_tasks.items]

\* CoPilotPlayBook.__init__, lines 180-183
InitRun ==
    /\ playbook = PyNone
    /\ rc = 0
    /\ pc = "idle"
    /\ tqm = "None"
    /\ pending = "none"
    /\ created = 0
    /\ cleaned = 0
    /\ engine = [did |-> "nothing"]
    /\ outcome = [op |-> "init", exc |-> "none"]

setup(pb_name, pb_tasks) ==
    /\ pc = "idle"
    /\ IF MissingOrInvalidTasks(pb_tasks)
       THEN /\ outcome' = [op |-> "setup", exc |-> "CoPilotPlaybookError",
                           pb_name |-> pb_name, pb_tasks |-> pb_tasks]
            /\ UNCHANGED playbook
       ELSE /\ outcome' = [op |-> "setup", exc |-> "none",
                           pb_name |-> pb_name, pb_tasks |-> pb_tasks]
            /\ playbook' = LoadPlay(pb_name, pb_tasks)
    /\ UNCHANGED <<rc, pc, tqm, pending, created, cleaned, engine>>
    /\ UNCHANGED notRun

Setup == \E n \in PlayNames, t \in TaskValues : setup(n, t)

\* run(), line 215: tqm = None, and the try block is entered
RunEnter ==
    /\ pc = "idle"
    /\ created < MaxRuns
    /\ pc' = "try"
    /\ tqm' = "None"
    /\ pending' = "none"
    /\ engine' = [did |-> "nothing"]
    /\ outcome' = [op |-> "run", exc |-> "running"]
    /\ UNCHANGED <<playbook, rc, created, cleaned>>
    /\ UNCHANGED notRun

\* lines 217-225: the TaskQueueManager constructor returns or raises
RunCreateTqm ==
    /\ pc = "try"
    /\ \/ /\ tqm' = "tqm"
          /\ created' = created + 1
          /\ pc' = "engine"
          /\ UNCHANGED pending
       \/ /\ pending' = "AnsibleError"
          /\ pc' = "finally"
          /\ UNCHANGED <<tqm, created>>
    /\ UNCHANGED <<playbook, rc, cleaned, engine, outcome>>
    /\ UNCHANGED notRun

\* line 226: self.rc = tqm.run(self.playbook); the engine returns a code or
\* raises
RunEngine ==
    /\ pc = "engine"
    /\ \/ \E c \in ReturnCodes :
             /\ rc' = c
             /\ engine' = [did |-> "returned", code |-> c]
             /\ UNCHANGED pending
       \/ /\ pending' = "AnsibleError"
          /\ engine' = [did |-> "raised"]
          /\ UNCHANGED rc
    /\ pc' = "finally"
    /\ UNCHANGED <<playbook, tqm, created, cleaned, outcome>>
    /\ UNCHANGED notRun

\* run() with tqm.cleanup() as the last statement of the try block instead
\* of a finally clause
RunFinallyOnSuccessOnly ==
    /\ pc = "finally"
    /\ cleaned' = IF tqm # "None" /\ pending = "none" THEN cleaned + 1 ELSE cleaned
    /\ outcome' = [op |-> "run", exc |-> pending]
    /\ pc' = "idle"
    /\ tqm' = "None"
    /\ pending' = "none"
    /\ UNCHANGED <<playbook, rc, created, engine>>
    /\ UNCHANGED notRun

\* lines 228-230: the finally clause, then run() returns or the exception
\* in flight leaves it
RunFinally ==
    /\ pc = "finally"
    /\ cleaned' = IF tqm # "None" THEN cleaned + 1 ELSE cleaned
    /\ outcome' = [op |-> "run", exc |-> pending]
    /\ pc' = "idle"
    /\ tqm' = "None"
    /\ pending' = "none"
    /\ UNCHANGED <<playbook, rc, created, engine>>
    /\ UNCHANGED notRun

NextRun == Setup \/ RunEnter \/ RunCreateTqm \/ RunEngine \/ RunFinally

(***************************************************************************)
(* The base runner CoPilotPlayBook and its subclass StaticPlaybook.  The   *)
(* base class's setup and run can be reached on an object of either class  *)
(* (a subclass object through the base class: CoPilotPlayBook.setup(obj)). *)
(***************************************************************************)
MaxMethodCalls == 3

RunnerClasses == {"CoPilotPlayBook", "StaticPlaybook"}

Callbacks == {"None", "ResultCallback"}

PyStr(str) == [type |-> "str", value |-> str]

PlaybookFiles == {PyStr("site.yml"), PyStr("purge.yml")}

\* PlaybookExecutor.run results seen by run()
ExecutorCodes == {0, 2, 4}

\* lines 149-162
Options ==
    [syntax |-> FALSE, listtags |-> FALSE, listtasks |-> FALSE,
     listhosts |-> FALSE, connection |-> "ssh", module_path |-> "",
     forks |-> 100, become |-> TRUE, become_method |-> "sudo",
     become_user |-> "root", check |-> FALSE, diff |-> FALSE]

\* lines 238-243: the executor for one playbook file, its callback not set
PlaybookExecutor(pb_file) ==
    [type |-> "PlaybookExecutor", playbooks |-> <<pb_file>>,
     stdout_callback |-> "unset"]

\* CoPilotPlayBook.__init__, lines 136-183
InitBase ==
    /\ \E cls \in RunnerClasses, cb \in Callbacks :
          runner = [cls |-> cls, options |-> Options, callback |-> cb,
                    pb_file |-> PyNone, playbook |-> PyNone, rc |-> 0]
    /\ runner_calls = 0
    /\ runner_out = [op |-> "__init__", exc |-> "none"]

\* StaticPlaybook.setup, lines 235-243: pb_file is set first, then the
\* executor is built, which may raise
StaticPlaybook_setup(pb_file) ==
    /\ runner.cls = "StaticPlaybook"
    /\ runner_calls < MaxMethodCalls
    /\ runner_calls' = runner_calls + 1
    /\ \/ /\ runner' = [runner EXCEPT !.pb_file = pb_file,
                                      !.playbook = PlaybookExecutor(pb_file)]
          /\ runner_out' = [op |-> "StaticPlaybook.setup", exc |-> "none"]
       \/ /\ runner' = [runner EXCEPT !.pb_file = pb_file]
          /\ runner_out' = [op |-> "StaticPlaybook.setup", exc |-> "AnsibleError"]
    /\ UNCHANGED notBase

\* StaticPlaybook.run, lines 245-249: without a playbook line 247 raises
\* AttributeError; else the executor gets the callback and runs, returning
\* a code or raising
StaticPlaybook_run ==
    /\ runner.cls = "StaticPlaybook"
    /\ runner_calls < MaxMethodCalls
    /\ runner_calls' = runner_calls + 1
    /\ IF runner.playbook = PyNone
       THEN /\ runner_out' = [op |-> "StaticPlaybook.run", exc |-> "AttributeError"]
            /\ UNCHANGED runner
       ELSE \/ \E c \in ExecutorCodes :
                  /\ runner' = [runner EXCEPT
                                   !.playbook.stdout_callback = runner.callback,
                                   !.rc = c]
                  /\ runner_out' = [op |-> "StaticPlaybook.run", exc |-> "none"]
            \/ /\ runner' = [runner EXCEPT
                                !.playbook.stdout_callback = runner.callback]
               /\ runner_out' = [op |-> "StaticPlaybook.run", exc |-> "AnsibleError"]
    /\ UNCHANGED notBase

\* a run() that resets rc before it raises
CoPilotPlayBook_run_resetting ==
    /\ runner_calls < MaxMethodCalls
    /\ runner_calls' = runner_calls + 1
    /\ runner_out' = [op |-> "CoPilotPlayBook.run", exc |-> "CoPilotPlaybookError",
                      msg |-> "Missing 'run' method override"]
    /\ runner' = [runner EXCEPT !.rc = 0]
    /\ UNCHANGED notBase

\* CoPilotPlayBook.setup, lines 185-186
CoPilotPlayBook_setup ==
    /\ runner_calls < MaxMethodCalls
    /\ runner_calls' = runner_calls + 1
    /\ runner_out' = [op |-> "CoPilotPlayBook.setup", exc |-> "CoPilotPlaybookError",
                      msg |-> "Missing 'setup' method override"]
    /\ UNCHANGED runner
    /\ UNCHANGED notBase

\* CoPilotPlayBook.run, lines 188-189
CoPilotPlayBook_run ==
    /\ runner_calls < MaxMethodCalls
    /\ runner_calls' = runner_calls + 1
    /\ runner_out' = [op |-> "CoPilotPlayBook.run", exc |-> "CoPilotPlaybookError",
                      msg |-> "Missing 'run' method override"]
    /\ UNCHANGED runner
    /\ UNCHANGED notBase

StaticSetup == \E f \in PlaybookFiles : StaticPlaybook_setup(f)

NextBase == StaticSetup \/ StaticPlaybook_run \/ CoPilotPlayBook_setup \/ CoPilotPlayBook_run

(***************************************************************************)
(* ansible.cfg.  A file's content is its text form and the sections a      *)
(* ConfigParser reads from it.  "hand" is the text as its author wrote it  *)
(* (comments, spacing, key case); "written" is the text ConfigParser.write *)
(* produces from the parsed sections.                                      *)
(***************************************************************************)
NoFile == [exists |-> FALSE]

File(text, sections) == [exists |-> TRUE, text |-> text, sections |-> sections]

NoOptions == [o \in {} |-> ""]

DefaultsSections ==
    {NoOptions,
     [forks |-> "20"],
     [deprecation_warnings |-> "False"],
     [deprecation_warnings |-> "True"],
     [forks |-> "20", deprecation_warnings |-> "false"]}

SectionSets ==
    {[ssh_connection |-> [pipelining |-> "True"]]}
    \cup {[defaults |-> d] : d \in DefaultsSections}
    \cup {[defaults |-> d, ssh_connection |-> [pipelining |-> "True"]] :
             d \in DefaultsSections}

ConfigFiles == {File(t, s) : t \in {"hand", "written"}, s \in SectionSets}

\* cfg_file.readfp(open(ansible_cfg, 'r')), line 199
ReadFp(file) == file.sections

\* cfg_file.write(c), line 218
WriteCfg(sections) == File("written", sections)

\* cfg_file.set(section, variable, required_value), lines 206 and 209
SetOption(sections, section, variable, value) ==
    Put(sections, section, Put(sections[section], variable, value))

(***************************************************************************)
(* lines 200-210, the loop over cfg_changes (one setting): the exception   *)
(* raised, the parser's sections afterwards and changes_made.              *)
(* cfg_file.get raises NoSectionError for a section the file does not      *)
(* have, and only NoOptionError is caught.                                 *)
(***************************************************************************)
ApplyCfgChanges(sections) ==
    IF "defaults" \notin DOMAIN sections
    THEN [exc |-> "NoSectionError", sections |-> sections, changes_made |-> FALSE]
    ELSE IF "deprecation_warnings" \in DOMAIN sections["defaults"]
         THEN IF sections["defaults"]["deprecation_warnings"] # "False"
              THEN [exc |-> "none",
                    sections |-> SetOption(sections, "defaults",
                                           "deprecation_warnings", "False"),
                    changes_made |-> TRUE]
              ELSE [exc |-> "none", sections |-> sections,
                    changes_made |-> FALSE]
         ELSE [exc |-> "none",
               sections |-> SetOption(sections, "defaults",
                                      "deprecation_warnings", "False"),
               changes_made |-> TRUE]

InitCfg ==
    /\ cfg \in ConfigFiles \cup {NoFile}
    /\ bak = NoFile
    /\ orig = cfg
    /\ calls = <<>>

\* setup_ansible_cfg, lines 187-218
setup_ansible_cfg ==
    /\ Len(calls) < MaxCalls
    /\ IF ~cfg.exists
       THEN /\ calls' = Append(calls, [op |-> "setup", exc |-> "EnvironmentError"])
            /\ UNCHANGED <<cfg, bak>>
       ELSE LET ch == ApplyCfgChanges(ReadFp(cfg))
            IN  IF ch.exc # "none"
                THEN /\ calls' = Append(calls, [op |-> "setup", exc |-> ch.exc])
                     /\ UNCHANGED <<cfg, bak>>
                ELSE /\ calls' = Append(calls, [op |-> "setup", exc |-> "none"])
                     /\ bak' = IF ch.changes_made THEN cfg ELSE bak
                     /\ cfg' = WriteCfg(ch.sections)
    /\ UNCHANGED orig
    /\ UNCHANGED notCfg

\* restore_ansible_cfg, lines 229-237
restore_ansible_cfg ==
    /\ Len(calls) < MaxCalls
    /\ calls' = Append(calls, [op |-> "restore", exc |-> "none"])
    /\ IF bak.exists
       THEN /\ cfg' = bak
            /\ bak' = NoFile
       ELSE UNCHANGED <<cfg, bak>>
    /\ UNCHANGED orig
    /\ UNCHANGED notCfg

NextCfg == setup_ansible_cfg \/ restore_ansible_cfg

(***************************************************************************)
(* sorted() over host names, which are ordered as Python orders strings    *)
(***************************************************************************)
HostRank(h) == IF h = "h1" THEN 1 ELSE 2

\* sorted(): insertion into an ascending list, one element after another
RECURSIVE Insert(_, _)
Insert(x, sq) ==
    IF sq = <<>> THEN <<x>>
    ELSE IF HostRank(x) <= HostRank(Head(sq)) THEN <<x>> \o sq
    ELSE <<Head(sq)>> \o Insert(x, Tail(sq))

RECURSIVE Sorted(_)
Sorted(sq) == IF sq = <<>> THEN <<>> ELSE Insert(Head(sq), Sorted(Tail(sq)))

(***************************************************************************)
(* dns_ok.  Time is counted in seconds of the caller's wait on the queue.  *)
(* Each call has a queue q and a resolver thread of its own; a thread      *)
(* outlives its call (daemon thread) and may post after the caller left.   *)
(***************************************************************************)
TCP_TIMEOUT == 2

\* the timeout argument: 0 stands for None (and for 0), for which
\* `not timeout` holds alike
TimeoutArgs == {0, 1, 3}

\* lines 85-89
EffectiveTimeout(timeout) == IF timeout = 0 THEN TCP_TIMEOUT ELSE timeout

\* `except Queue.Empty: return True`
OnQueueEmptyTrue == "True"

\* lines 97-98: `except Queue.Empty: return False`
OnQueueEmpty == "False"

\* check_host_in_dns, lines 78-83: gaierror posts False, success posts True
PostedValue(resolved) == IF resolved THEN "True" ELSE "False"

NoScan == [pc |-> "idle"]

\* check_dns's host_list
DnsHostLists == UNION {[1..n -> Hosts] : n \in 0..MaxProbes}

InitDns ==
    /\ probes = <<>>
    /\ dns_scan = NoScan

Waiting(i) == i \in 1..Len(probes) /\ probes[i].result = "pending"

\* lines 85-94: the timeout is settled, the queue made, the thread started,
\* and the caller enters q.get(True, timeout)
DnsOkCall(host_name, timeout) ==
    /\ Len(probes) < MaxProbes
    /\ \A i \in 1..Len(probes) : ~Waiting(i)
    /\ probes' = Append(probes,
                        [host_name |-> host_name, given |-> timeout,
                         timeout |-> EffectiveTimeout(timeout),
                         q |-> <<>>, thread |-> "running",
                         posted |-> "nothing", in_time |-> FALSE,
                         elapsed |-> 0, result |-> "pending"])
    /\ UNCHANGED dns_scan
    /\ UNCHANGED notDns

\* the resolver thread of call i: gethostbyname returns or raises gaierror,
\* and the outcome is put on the call's queue
ResolverPosts(i, resolved) ==
    /\ i \in 1..Len(probes)
    /\ probes[i].thread = "running"
    /\ probes' = [probes EXCEPT ![i].q = Append(@, PostedValue(resolved)),
                                ![i].posted = PostedValue(resolved),
                                ![i].in_time = Waiting(i),
                                ![i].thread = "done"]
    /\ UNCHANGED dns_scan
    /\ UNCHANGED notDns

\* gethostbyname raises something else (socket.herror, UnicodeError): the
\* thread ends and nothing is posted
ResolverDies(i) ==
    /\ i \in 1..Len(probes)
    /\ probes[i].thread = "running"
    /\ probes' = [probes EXCEPT ![i].thread = "dead"]
    /\ UNCHANGED dns_scan
    /\ UNCHANGED notDns

\* a second passes while the caller waits in q.get; the timed wait ends at
\* the timeout
Tick(i) ==
    /\ Waiting(i)
    /\ probes[i].q = <<>>
    /\ probes[i].elapsed < probes[i].timeout
    /\ probes' = [probes EXCEPT ![i].elapsed = @ + 1]
    /\ UNCHANGED dns_scan
    /\ UNCHANGED notDns

\* q.get on a queue that all calls share (a module-level q): the caller
\* takes whatever any resolver thread has posted
QueueGetShared(i) ==
    /\ Waiting(i)
    /\ \E j \in 1..Len(probes) :
          /\ probes[j].q # <<>>
          /\ probes' = [probes EXCEPT ![i].result = Head(probes[j].q),
                                      ![j].q = Tail(@)]
    /\ UNCHANGED dns_scan
    /\ UNCHANGED notDns

\* line 96: q.get returns the posted item
QueueGet(i) ==
    /\ Waiting(i)
    /\ probes[i].q # <<>>
    /\ probes' = [probes EXCEPT ![i].result = Head(probes[i].q),
                                ![i].q = Tail(@)]
    /\ UNCHANGED dns_scan
    /\ UNCHANGED notDns

\* lines 97-98: q.get raises Queue.Empty once the timeout has passed
QueueEmpty(i) ==
    /\ Waiting(i)
    /\ probes[i].q = <<>>
    /\ probes[i].elapsed >= probes[i].timeout
    /\ probes' = [probes EXCEPT ![i].result = OnQueueEmpty]
    /\ UNCHANGED dns_scan
    /\ UNCHANGED notDns

(***************************************************************************)
(* check_dns, line 118: dns_ok(host), no timeout given, for the hosts of   *)
(* host_list in order, one call after the other; the hosts whose call      *)
(* returned False, sorted.  The thread inside check_dns makes no other     *)
(* dns_ok call meanwhile; resolver threads of earlier calls still run.     *)
(***************************************************************************)
Scanning == dns_scan.pc = "scanning"

\* the call (one per run of the model): the list comprehension starts
CheckDnsCall(hl) ==
    /\ dns_scan = NoScan
    /\ \A i \in 1..Len(probes) : ~Waiting(i)
    /\ Len(probes) + Len(hl) <= MaxProbes
    /\ dns_scan' = [pc |-> "scanning", host_list |-> hl, first |-> Len(probes) + 1]
    /\ UNCHANGED probes
    /\ UNCHANGED notDns

\* the probe of the k-th host of the scan is the call first + k - 1
ScanProbe(k) == probes[dns_scan.first + k - 1]

\* dns_ok(host) for the next host of the list
CheckDnsProbe ==
    /\ Scanning
    /\ Len(probes) - dns_scan.first + 1 < Len(dns_scan.host_list)
    /\ DnsOkCall(dns_scan.host_list[Len(probes) - dns_scan.first + 2], 0)

\* [host for host in host_list if not dns_ok(host)]
RECURSIVE FailedHosts(_)
FailedHosts(k) ==
    IF k = 0 THEN <<>>
    ELSE IF ScanProbe(k).result = "False"
    THEN Append(FailedHosts(k - 1), dns_scan.host_list[k])
    ELSE FailedHosts(k - 1)

\* every host has been probed: sorted(...) is returned
CheckDnsReturn ==
    /\ Scanning
    /\ Len(probes) - dns_scan.first + 1 = Len(dns_scan.host_list)
    /\ \A i \in 1..Len(probes) : ~Waiting(i)
    /\ dns_scan' = [pc |-> "returned", host_list |-> dns_scan.host_list,
                    first |-> dns_scan.first,
                    result |-> Sorted(FailedHosts(Len(dns_scan.host_list)))]
    /\ UNCHANGED probes
    /\ UNCHANGED notDns

DnsCall == ~Scanning /\ \E h \in Hosts, t \in TimeoutArgs : DnsOkCall(h, t)

CheckDns == \E hl \in DnsHostLists : CheckDnsCall(hl)

DnsPost == \E i \in 1..MaxProbes, r \in BOOLEAN : ResolverPosts(i, r)

DnsDie == \E i \in 1..MaxProbes : ResolverDies(i)

DnsTick == \E i \in 1..MaxProbes : Tick(i)

DnsGet == \E i \in 1..MaxProbes : QueueGet(i)

DnsEmpty == \E i \in 1..MaxProbes : QueueEmpty(i)

NextDns ==
    \/ DnsCall \/ DnsPost \/ DnsDie \/ DnsTick \/ DnsGet \/ DnsEmpty
    \/ CheckDns \/ CheckDnsProbe \/ CheckDnsReturn

(***************************************************************************)
(* check_ssh_access                                                        *)
(***************************************************************************)
HostLists == UNION {[1..n -> Hosts] : n \in 0..MaxHosts}

\* what client.connect does: it returns, or raises one of these
ConnectOutcomes ==
    {"ok", "socket.timeout", "AuthenticationException", "SSHException",
     "NoValidConnectionsError", "socket.gaierror"}

\* the except clauses without the one for NoValidConnectionsError
CaughtWithoutNoValidConnections(exc) ==
    exc \in {"socket.timeout", "AuthenticationException", "SSHException"}

\* lines 144-155: the exceptions the three except clauses catch
Caught(exc) ==
    \/ exc = "socket.timeout"
    \/ exc \in {"AuthenticationException", "SSHException"}
    \/ exc = "NoValidConnectionsError"

InitSsh ==
    /\ host_list = <<>>
    /\ sshpc = "idle"
    /\ idx = 0
    /\ ssh_errors = <<>>
    /\ connected = FALSE
    /\ attempts = <<>>
    /\ closes = 0
    /\ ssh_result = <<>>

\* lines 128-138: the call, up to the loop (a host_list of None is the
\* empty list)
SshCall(hl) ==
    /\ sshpc = "idle"
    /\ host_list' = hl
    /\ sshpc' = "connect"
    /\ idx' = 1
    /\ ssh_errors' = <<>>
    /\ UNCHANGED <<connected, attempts, closes, ssh_result>>
    /\ UNCHANGED notSsh

\* lines 140-155: client.connect for the host at idx, and the except
\* clause that catches what it raised, if one does
SshConnect(out) ==
    /\ sshpc = "connect"
    /\ idx <= Len(host_list)
    /\ attempts' = Append(attempts, [hostname |-> host_list[idx], outcome |-> out])
    /\ IF out = "ok"
       THEN /\ connected' = TRUE
            /\ sshpc' = "close"
            /\ UNCHANGED <<idx, ssh_errors>>
       ELSE IF Caught(out)
       THEN /\ ssh_errors' = Append(ssh_errors, host_list[idx])
            /\ idx' = idx + 1
            /\ UNCHANGED <<connected, sshpc>>
       ELSE /\ sshpc' = "raised"
            /\ UNCHANGED <<connected, idx, ssh_errors>>
    /\ UNCHANGED <<host_list, closes, ssh_result>>
    /\ UNCHANGED notSsh

\* the loop without its else clause: the connection is left open
SshCloseForgotten ==
    /\ sshpc = "close"
    /\ idx' = idx + 1
    /\ sshpc' = "connect"
    /\ UNCHANGED <<host_list, ssh_errors, connected, attempts, closes, ssh_result>>
    /\ UNCHANGED notSsh

\* lines 156-157: the else clause
SshClose ==
    /\ sshpc = "close"
    /\ connected' = FALSE
    /\ closes' = closes + 1
    /\ idx' = idx + 1
    /\ sshpc' = "connect"
    /\ UNCHANGED <<host_list, ssh_errors, attempts, ssh_result>>
    /\ UNCHANGED notSsh

\* line 159
SshReturn ==
    /\ sshpc = "connect"
    /\ idx > Len(host_list)
    /\ ssh_result' = Sorted(ssh_errors)
    /\ sshpc' = "returned"
    /\ UNCHANGED <<host_list, idx, ssh_errors, connected, attempts, closes>>
    /\ UNCHANGED notSsh

SshStart == \E hl \in HostLists : SshCall(hl)

SshTry == \E out \in ConnectOutcomes : SshConnect(out)

NextSsh == SshStart \/ SshTry \/ SshClose \/ SshReturn

(***************************************************************************)
(* bytes2human.  A byte count is written in base 1024, lowest digit first  *)
(* (<<0, 1>> is 1024, <<>> is 0), which reaches the counts beyond 1024^5.  *)
(* After k rounds of `size /= divisor` the float size is the count n over  *)
(* 1024^k: its whole part is the digits above the k-th, its fraction the   *)
(* k digits below.  The counts tried are ones a float holds exactly.       *)
(***************************************************************************)
MaxRank == 6

\* line 37
divisor == 1024

\* line 28
suffixes == <<"K", "M", "G", "T", "P">>

\* line 30
rounding(char1) == IF char1 = "P" THEN 1 ELSE 0

\* the count hi * 1024^k + lo * 1024^(k-1)
Num(k, hi, lo) ==
    [e \in 1..(k + 1) |-> IF e = k + 1 THEN hi ELSE IF e = k THEN lo ELSE 0]

HighDigits == {1, 2, 1023}

LowDigits == {0, 51, 52, 256, 511, 512, 1023}

Magnitudes ==
    {<<>>}
    \cup {Num(0, hi, 0) : hi \in (HighDigits \cup LowDigits) \ {0}}
    \cup {Num(k, hi, lo) : k \in 1..MaxRank, hi \in HighDigits, lo \in LowDigits}

\* in_bytes: a sign and a magnitude (there is no negative zero among ints)
ByteCounts ==
    {[neg |-> FALSE, n |-> n] : n \in Magnitudes}
    \cup {[neg |-> TRUE, n |-> n] : n \in Magnitudes \ {<<>>}}

\* target_unit: None, or one of the suffixes
TargetUnits == {"None", "K", "M", "G", "T", "P"}

Digit(n, e) == IF e \in 1..Len(n) THEN n[e] ELSE 0

\* line 41, `size < divisor`, after k divisions
SizeBelowDivisor(n, k) == \A e \in 1..Len(n) : e > k + 1 => n[e] = 0

\* the whole part of n / 1024^k
WholePart(n, k) == IF k >= Len(n) THEN <<>> ELSE SubSeq(n, k + 1, Len(n))

\* floor(m * fraction) for the fraction of n / 1024^k, carried up from the
\* lowest digit
RECURSIVE FloorOfMultiple(_, _, _)
FloorOfMultiple(m, n, k) ==
    IF k = 0 THEN 0
    ELSE (m * Digit(n, k) + FloorOfMultiple(m, n, k - 1)) \div divisor

\* n + 1
RECURSIVE Succ(_)
Succ(n) ==
    IF n = <<>> THEN <<1>>
    ELSE IF Head(n) < divisor - 1 THEN <<Head(n) + 1>> \o Tail(n)
    ELSE <<0>> \o Succ(Tail(n))

PowerOfTen(precision) == IF precision = 0 THEN 1 ELSE 10

\* round() that drops the fraction instead of rounding it
RoundTowardsZero(n, k, precision) ==
    [whole |-> WholePart(n, k),
     frac  |-> FloorOfMultiple(PowerOfTen(precision), n, k)]

(***************************************************************************)
(* line 44, round(size, precision): Python 2 rounds to the nearest multiple*)
(* of 10^-precision, a tie away from zero.  The result is the whole part   *)
(* and the decimals as a number below 10^precision.                        *)
(***************************************************************************)
Round(n, k, precision) ==
    LET scale == PowerOfTen(precision)
        t     == (FloorOfMultiple(2 * scale, n, k) + 1) \div 2
    IN  IF t = scale
        THEN [whole |-> Succ(WholePart(n, k)), frac |-> 0]
        ELSE [whole |-> WholePart(n, k), frac |-> t]

\* n divided by ten: the quotient and the remainder
RECURSIVE DivTen(_)
DivTen(n) ==
    IF n = <<>> THEN [q |-> <<>>, r |-> 0]
    ELSE LET hi  == DivTen(Tail(n))
             cur == hi.r * divisor + Head(n)
         IN  [q |-> IF hi.q = <<>> /\ cur \div 10 = 0
                    THEN <<>>
                    ELSE <<cur \div 10>> \o hi.q,
              r |-> cur % 10]

\* the decimal digits of n
RECURSIVE Decimal(_)
Decimal(n) ==
    IF n = <<>> THEN ""
    ELSE LET d == DivTen(n) IN Decimal(d.q) \o ToString(d.r)

\* lines 45-47: '{0:.<precision>f}{1}'.format(size, suffix)
Format(precision, size, suffix) ==
    (IF size.whole = <<>> THEN "0" ELSE Decimal(size.whole))
        \o (IF precision = 0 THEN "" ELSE "." \o ToString(size.frac))
        \o suffix

\* lines 39-49: the loop from the i-th suffix on
RECURSIVE ScaleFrom(_, _, _)
ScaleFrom(n, target_unit, i) ==
    IF i > Len(suffixes)
    THEN [exc |-> "ValueError", msg |-> "number too large"]
    ELSE LET suffix == suffixes[i]
         IN  IF SizeBelowDivisor(n, i) \/ suffix = target_unit
             THEN [exc |-> "none",
                   value |-> Format(rounding(suffix),
                                    Round(n, i, rounding(suffix)), suffix)]
             ELSE ScaleFrom(n, target_unit, i + 1)

bytes2human(in_bytes, target_unit) ==
    IF in_bytes.neg
    THEN [exc |-> "ValueError", msg |-> "number must be non-negative"]
    ELSE ScaleFrom(in_bytes.n, target_unit, 1)

NotCalled == [exc |-> "not called"]

InitB2h ==
    /\ b2h_args \in [in_bytes : ByteCounts, target_unit : TargetUnits]
    /\ b2h_out = NotCalled

Bytes2Human ==
    /\ b2h_out = NotCalled
    /\ b2h_out' = bytes2human(b2h_args.in_bytes, b2h_args.target_unit)
    /\ UNCHANGED b2h_args
    /\ UNCHANGED notB2h

NextB2h == Bytes2Human

(***************************************************************************)
(* expand_hosts.  A string is the sequence of its characters.              *)
(***************************************************************************)
MaxLines == 2

DigitChars == <<"0", "1", "2", "3", "4", "5", "6", "7", "8", "9">>

NewLine == "\n"

\* the lines tried: blank, plain names, ranges (ascending, single, empty,
\* with a leading zero, without a prefix) and lines with a '[' that is not
\* followed by two numbers, a '-' between them and a closing character
Lines ==
    {<<>>,
     <<"a">>,
     <<"b">>,
     <<"n", "o", "d", "e", "[", "1", "-", "3", "]">>,
     <<"n", "[", "2", "-", "2", "]">>,
     <<"n", "[", "3", "-", "1", "]">>,
     <<"n", "[", "0", "9", "-", "1", "0", "]">>,
     <<"[", "1", "-", "2", "]">>,
     <<"n", "[", "1">>,
     <<"n", "[", "1", "2", "]">>,
     <<"n", "[", "1", "-", "3", "]", "x">>,
     <<"n", "[", "a", "-", "2", "]">>,
     <<"n", "[", "1", "-", "2", "-", "3", "]">>}

\* '\n'.join(lines)
RECURSIVE JoinLines(_)
JoinLines(ls) ==
    IF Len(ls) = 1 THEN ls[1]
    ELSE ls[1] \o <<NewLine>> \o JoinLines(Tail(ls))

HostTexts == {JoinLines(ls) : ls \in UNION {[1..k -> Lines] : k \in 1..MaxLines}}

Chars(str) == {str[i] : i \in 1..Len(str)}

\* str.index(c), counted from 1
IndexOf(str, c) == CHOOSE i \in 1..Len(str) : str[i] = c /\ \A j \in 1..(i - 1) : str[j] # c

\* str.split(sep)
RECURSIVE Split(_, _)
Split(str, sep) ==
    IF sep \notin Chars(str) THEN <<str>>
    ELSE LET i == IndexOf(str, sep)
         IN  <<SubSeq(str, 1, i - 1)>> \o Split(SubSeq(str, i + 1, Len(str)), sep)

\* str[from:-1], from counted from 1
SliceToLast(str, from) ==
    IF from > Len(str) - 1 THEN <<>> ELSE SubSeq(str, from, Len(str) - 1)

\* int(str) raises ValueError unless str is a number
IsInt(str) == str # <<>> /\ \A i \in 1..Len(str) : str[i] \in Chars(DigitChars)

DigitValue(c) == CHOOSE d \in 0..9 : DigitChars[d + 1] = c

RECURSIVE ParseInt(_)
ParseInt(str) ==
    IF Len(str) = 1 THEN DigitValue(str[1])
    ELSE 10 * ParseInt(SubSeq(str, 1, Len(str) - 1)) + DigitValue(str[Len(str)])

\* str(n)
RECURSIVE StrOfInt(_)
StrOfInt(n) ==
    IF n < 10 THEN <<DigitChars[n + 1]>>
    ELSE StrOfInt(n \div 10) \o <<DigitChars[(n % 10) + 1]>>

\* range(first, last) without the `+ 1`
RangeWithoutLast(first, last) ==
    [i \in 1..(IF last > first THEN last - first ELSE 0) |-> first + i - 1]

\* line 108: range(first, last + 1, 1) as a list
RangeInclusive(first, last) ==
    [i \in 1..(IF last >= first THEN last - first + 1 ELSE 0) |-> first + i - 1]

(***************************************************************************)
(* lines 104-113, one pass of the loop body: the entries the line adds to  *)
(* hosts, or the exception that leaves the function.  The arguments of     *)
(* range() are evaluated from the left.                                    *)
(***************************************************************************)
ExpandLine(hostname) ==
    IF "[" \in Chars(hostname)
    THEN LET brkt_pos  == IndexOf(hostname, "[")
             prefix    == SubSeq(hostname, 1, brkt_pos - 1)
             sfx_range == Split(SliceToLast(hostname, brkt_pos + 1), "-")
         IN  IF ~IsInt(sfx_range[1])
             THEN [exc |-> "ValueError", hosts |-> <<>>]
             ELSE IF Len(sfx_range) < 2
             THEN [exc |-> "IndexError", hosts |-> <<>>]
             ELSE IF ~IsInt(sfx_range[2])
             THEN [exc |-> "ValueError", hosts |-> <<>>]
             ELSE LET ns == RangeInclusive(ParseInt(sfx_range[1]),
                                           ParseInt(sfx_range[2]))
                  IN  [exc |-> "none",
                       hosts |-> [i \in 1..Len(ns) |-> prefix \o StrOfInt(ns[i])]]
    ELSE IF hostname # <<>>
         THEN [exc |-> "none", hosts |-> <<hostname>>]
         ELSE [exc |-> "none", hosts |-> <<>>]

\* lines 102-114: the loop over the lines, hosts being the list so far
RECURSIVE ExpandFrom(_, _)
ExpandFrom(lines, hosts) ==
    IF lines = <<>> THEN [exc |-> "none", hosts |-> hosts]
    ELSE LET one == ExpandLine(Head(lines))
         IN  IF one.exc # "none"
             THEN [exc |-> one.exc]
             ELSE ExpandFrom(Tail(lines), hosts \o one.hosts)

expand_hosts(text) == ExpandFrom(Split(text, NewLine), <<>>)

InitExp ==
    /\ host_text \in HostTexts
    /\ exp_out = NotCalled

ExpandHosts ==
    /\ exp_out = NotCalled
    /\ exp_out' = expand_hosts(host_text)
    /\ UNCHANGED host_text
    /\ UNCHANGED notExp

NextExp == ExpandHosts

(***************************************************************************)
(* Each component is checked on its own: the others stand still in the     *)
(* state their construction leaves.                                        *)
(***************************************************************************)
QuietAgg ==
    /\ InitAgg
    /\ logger = "Logger"
    /\ pb_callout = "None"

QuietCfg ==
    /\ InitCfg
    /\ cfg = NoFile

QuietB2h ==
    /\ InitB2h
    /\ b2h_args = [in_bytes |-> [neg |-> FALSE, n |-> <<>>], target_unit |-> "None"]

QuietExp ==
    /\ InitExp
    /\ host_text = <<>>

QuietBase ==
    /\ InitBase
    /\ runner.cls = "CoPilotPlayBook"
    /\ runner.callback = "None"

Quiet == QuietB2h /\ QuietExp /\ QuietBase

InitOfAgg == InitAgg /\ InitRun /\ QuietCfg /\ InitDns /\ InitSsh /\ Quiet

InitOfRun == QuietAgg /\ InitRun /\ QuietCfg /\ InitDns /\ InitSsh /\ Quiet

InitOfCfg == QuietAgg /\ InitRun /\ InitCfg /\ InitDns /\ InitSsh /\ Quiet

InitOfDns == QuietAgg /\ InitRun /\ QuietCfg /\ InitDns /\ InitSsh /\ Quiet

InitOfSsh == QuietAgg /\ InitRun /\ QuietCfg /\ InitDns /\ InitSsh /\ Quiet

InitOfB2h ==
    /\ QuietAgg /\ InitRun /\ QuietCfg /\ InitDns /\ InitSsh
    /\ InitB2h /\ QuietExp /\ QuietBase

InitOfExp ==
    /\ QuietAgg /\ InitRun /\ QuietCfg /\ InitDns /\ InitSsh
    /\ QuietB2h /\ InitExp /\ QuietBase

InitOfBase ==
    /\ QuietAgg /\ InitRun /\ QuietCfg /\ InitDns /\ InitSsh
    /\ QuietB2h /\ QuietExp /\ InitBase

Init ==
    /\ InitAgg /\ InitRun /\ InitCfg /\ InitDns /\ InitSsh
    /\ InitB2h /\ InitExp /\ InitBase

Next ==
    \/ NextAgg \/ NextRun \/ NextCfg \/ NextDns \/ NextSsh
    \/ NextB2h \/ NextExp \/ NextBase

Spec == Init /\ [][Next]_vars

SpecAgg == InitOfAgg /\ [][NextAgg]_vars

SpecRun == InitOfRun /\ [][NextRun]_vars

SpecCfg == InitOfCfg /\ [][NextCfg]_vars

SpecDns == InitOfDns /\ [][NextDns]_vars

SpecSsh == InitOfSsh /\ [][NextSsh]_vars

SpecB2h == InitOfB2h /\ [][NextB2h]_vars

SpecExp == InitOfExp /\ [][NextExp]_vars

SpecBase == InitOfBase /\ [][NextBase]_vars

(***************************************************************************)
(* Aggregator: derived values                                              *)
(***************************************************************************)
TaskStateSum(s) ==
    s.task_state.success + s.task_state.failed + s.task_state.skipped
        + s.task_state.unreachable

FailuresOf(s, h) == IF h \in DOMAIN s.failures THEN s.failures[h] ELSE <<>>

Retained ==
    {stats.successes[h] : h \in DOMAIN stats.successes}
    \cup UNION {{stats.failures[h][i] : i \in 1..Len(stats.failures[h])} :
                   h \in DOMAIN stats.failures}

Logged == {e["payload"] : e \in {x \in log : "payload" \in DOMAIN x}}

HasNoWarningFields(p) ==
    "warnings" \notin DOMAIN p /\ "deprecations" \notin DOMAIN p

\* C1: the sum of the four task_state counters equals the number of
\* per-host events delivered, whatever the payloads and whether or not a
\* logger and a callback were supplied.
C1_SumEqualsDelivered == TaskStateSum(stats) = delivered

\* C2: every payload delivered to v2_runner_on_failed for a host is appended
\* to that host's failure list (the earlier entries kept, successes
\* untouched), and every payload delivered to v2_runner_on_ok for a host
\* becomes that host's entry of successes (failures untouched).
C2_FailuresAppendedSuccessesOverwritten ==
    [][\A h \in Hosts, p \in Payloads :
          /\ v2_runner_on_failed(h, p) =>
                LET old == FailuresOf(stats, h)
                    new == FailuresOf(stats', h)
                IN  /\ Len(new) = Len(old) + 1
                    /\ SubSeq(new, 1, Len(old)) = old
                    /\ new[Len(new)]["body"] = p["body"]
                    /\ stats'.successes = stats.successes
          /\ v2_runner_on_ok(h, p) =>
                /\ h \in DOMAIN stats'.successes
                /\ stats'.successes[h]["body"] = p["body"]
                /\ stats'.failures = stats.failures]_vars

\* C3: with a notification callback supplied, every per-host event has
\* invoked it exactly once with stats that already reflect the event, so
\* the number of invocations equals the number of events delivered and the
\* sum of the counters.
C3_CalloutOncePerEvent ==
    pb_callout = "callable" =>
        /\ callout.n = delivered
        /\ callout.n = TaskStateSum(stats)
        /\ callout.stats = [stats EXCEPT !.task_name = callout.stats.task_name]

\* C4 as stated: no retained or logged payload has a 'warnings' or a
\* 'deprecations' key, whatever value the delivered payload gave them.
C4_NoWarningKeyKept ==
    \A p \in Retained \cup Logged : HasNoWarningFields(p)

\* C4 as amended: no retained or logged payload has a non-empty 'warnings'
\* or 'deprecations' field (an empty list stays in place), and stripping a
\* payload that lacks both fields raises nothing, logs nothing and leaves
\* the payload unchanged, with or without a logger.
C4_NoNonEmptyWarningsKept ==
    /\ \A p \in Retained \cup Logged :
          /\ "warnings" \in DOMAIN p => p["warnings"] = <<>>
          /\ "deprecations" \in DOMAIN p => p["deprecations"] = <<>>
    /\ \A p \in Payloads :
          HasNoWarningFields(p) =>
            HandleWarnings(p) = [res |-> p, log |-> {}, exc |-> "none"]

\* a single failed event whose payload had both fields non-empty: both were
\* logged as warnings and the payload was retained and logged without them
C4_Witness ==
    /\ delivered = 1
    /\ [level |-> "warning", msg |-> "w"] \in log
    /\ [level |-> "warning", msg |-> "d"] \in log
    /\ LogMsg("h1", [body |-> "a"], "error") \in log
    /\ FailuresOf(stats, "h1") = <<[body |-> "a"]>>

Kinds == {"success", "failed", "skipped", "unreachable"}

\* the counters after one more event of the kind
Counted(ts, kind) == [ts EXCEPT ![kind] = @ + 1]

\* C14: no task_state counter ever decreases or is reset; each per-host
\* event raises its own kind's counter by one and leaves the other three
\* as they were; a task-start event overwrites task_name with the new name
\* and leaves the counters, failures and successes as they were.
C14_EachEventCountsOnce ==
    [][/\ \A k \in Kinds : stats'.task_state[k] >= stats.task_state[k]
       /\ \A h \in Hosts, p \in Payloads :
             /\ v2_runner_on_ok(h, p) =>
                   stats'.task_state = Counted(stats.task_state, "success")
             /\ v2_runner_on_failed(h, p) =>
                   stats'.task_state = Counted(stats.task_state, "failed")
             /\ v2_runner_on_unreachable(h, p) =>
                   stats'.task_state = Counted(stats.task_state, "unreachable")
             /\ v2_runner_on_skipped(h, p) =>
                   stats'.task_state = Counted(stats.task_state, "skipped")
       /\ \A n \in TaskNames :
             playbook_on_task_start(n) => stats' = [stats EXCEPT !.task_name = n]]_vars

\* all of stats but one counter is as it was, and that counter has not
\* gone down
OnlyCounterChanged(kind) ==
    /\ stats'.failures = stats.failures
    /\ stats'.successes = stats.successes
    /\ stats'.task_name = stats.task_name
    /\ \A k \in Kinds \ {kind} : stats'.task_state[k] = stats.task_state[k]
    /\ stats'.task_state[kind] \in {stats.task_state[kind], stats.task_state[kind] + 1}

\* C15: v2_runner_on_unreachable and v2_runner_on_skipped retain no
\* payload: whatever the host and the payload, each leaves failures,
\* successes and task_name as they were and changes nothing of task_state
\* but its own counter (in no state is there a step of either handler that
\* does otherwise).
C15_UnreachableSkippedRetainNothing ==
    \A h \in Hosts, p \in Payloads :
        /\ ~ENABLED (v2_runner_on_unreachable(h, p)
                        /\ ~OnlyCounterChanged("unreachable"))
        /\ ~ENABLED (v2_runner_on_skipped(h, p)
                        /\ ~OnlyCounterChanged("skipped"))

\* an unreachable and a skipped event, one of them with a warning that was
\* logged, have been counted and nothing has been retained
C15_Witness ==
    /\ delivered = 2
    /\ stats.task_state = [success |-> 0, failed |-> 0, skipped |-> 1,
                           unreachable |-> 1]
    /\ [level |-> "warning", msg |-> "w"] \in log
    /\ stats.failures = <<>>
    /\ stats.successes = <<>>

RECURSIVE SumOfLens(_, _)
SumOfLens(f, keys) ==
    IF keys = {} THEN 0
    ELSE LET h == CHOOSE x \in keys : TRUE
         IN  Len(f[h]) + SumOfLens(f, keys \ {h})

\* C18: after any sequence of completed handlers, task_state['failed'] is
\* the number of payloads held over all hosts' lists of failures, every
\* host key of failures has a non-empty list, and successes has no more
\* host keys than task_state['success'] counts.
C18_CountersMatchRetained ==
    /\ stats.task_state.failed = SumOfLens(stats.failures, DOMAIN stats.failures)
    /\ \A h \in DOMAIN stats.failures : stats.failures[h] # <<>>
    /\ Cardinality(DOMAIN stats.successes) <= stats.task_state.success

\* two failures of one host and an ok event of the other are held
C18_Witness ==
    /\ stats.task_state.failed = 2
    /\ Len(FailuresOf(stats, "h1")) = 2
    /\ stats.task_state.success = 1
    /\ DOMAIN stats.successes = {"h2"}

(***************************************************************************)
(* Playbook runner: claims                                                 *)
(***************************************************************************)
\* C5: every TaskQueueManager a run() call created has had cleanup() called
\* exactly once by the time run() exits, whether the engine returned a code
\* (then recorded in rc, run() returning normally) or raised (the exception
\* then leaving run()); a manager is un-cleaned only while run() holds it.
C5_ManagerCleanedOnEveryExit ==
    /\ cleaned <= created
    /\ created <= cleaned + 1
    /\ created > cleaned <=> tqm = "tqm"
    /\ pc = "idle" => cleaned = created
    /\ (pc = "idle" /\ outcome.op = "run") =>
          /\ engine.did = "returned" =>
                rc = engine.code /\ outcome.exc = "none"
          /\ engine.did = "raised" => outcome.exc = "AnsibleError"

\* run() has exited with the engine's exception, the manager it created
\* cleaned up
C5_Witness ==
    /\ pc = "idle"
    /\ outcome = [op |-> "run", exc |-> "AnsibleError"]
    /\ engine.did = "raised"
    /\ created = 1
    /\ cleaned = 1

\* Python's sequence types among the values tried
IsSequence(v) == v.type \in {"list", "tuple", "str"}

SetupRaised(o) == o.op = "setup" /\ o.exc = "CoPilotPlaybookError"

SetupBuilt(o, pb, n, t) ==
    /\ o.op = "setup"
    /\ o.exc = "none"
    /\ pb = [type |-> "Play", name |-> n, hosts |-> "all",
             gather_facts |-> "no", tasks |-> t.items]

\* C6 as stated: setup raises CoPilotPlaybookError, the playbook left as it
\* was, exactly when task_list is absent or not a sequence, and builds the
\* play (hosts 'all', no fact gathering, the tasks, the name) for every
\* sequence.
C6_RaisesIffAbsentOrNotSequence ==
    [][\A n \in PlayNames, t \in TaskValues :
          setup(n, t) =>
            IF t = PyNone \/ ~IsSequence(t)
            THEN SetupRaised(outcome') /\ playbook' = playbook
            ELSE SetupBuilt(outcome', playbook', n, t)]_vars

\* C6 as amended: setup raises CoPilotPlaybookError, the playbook left as
\* it was, exactly when task_list is anything but a non-empty list (absent,
\* empty, or of another type, a tuple included), and builds the play for
\* every non-empty list.
C6_RaisesUnlessNonEmptyList ==
    [][\A n \in PlayNames, t \in TaskValues :
          setup(n, t) =>
            IF t.type # "list" \/ t.items = <<>>
            THEN SetupRaised(outcome') /\ playbook' = playbook
            ELSE SetupBuilt(outcome', playbook', n, t)]_vars

\* setup with an empty list has raised and left an earlier play in place
C6_Witness ==
    /\ outcome = [op |-> "setup", exc |-> "CoPilotPlaybookError",
                  pb_name |-> "n1", pb_tasks |-> PyList(<<>>)]
    /\ playbook = LoadPlay("Dynamic playbook", PyList(<<"t1", "t2">>))

RaisedMissingOverride(out, method) ==
    /\ out.exc = "CoPilotPlaybookError"
    /\ out.msg = "Missing '" \o method \o "' method override"

\* C16: setup and run invoked on the base runner CoPilotPlayBook always
\* fail with the 'missing override' CoPilotPlaybookError and change none
\* of playbook, pb_file, rc, options and callback, whatever state the
\* runner was in.
C16_BaseMethodsRaiseAndChangeNothing ==
    [][/\ CoPilotPlayBook_setup =>
             RaisedMissingOverride(runner_out', "setup") /\ runner' = runner
       /\ CoPilotPlayBook_run =>
             RaisedMissingOverride(runner_out', "run") /\ runner' = runner]_vars

\* the base run() has raised on a runner that a static setup and run had
\* given a playbook file, an executor and a return code, all still there
C16_Witness ==
    /\ runner_calls = 3
    /\ runner_out.op = "CoPilotPlayBook.run"
    /\ runner_out.exc = "CoPilotPlaybookError"
    /\ runner.pb_file = PyStr("site.yml")
    /\ runner.playbook = [type |-> "PlaybookExecutor",
                          playbooks |-> <<PyStr("site.yml")>>,
                          stdout_callback |-> "ResultCallback"]
    /\ runner.rc = 2

(***************************************************************************)
(* ansible.cfg: claims                                                     *)
(***************************************************************************)
HasKey(file) ==
    /\ file.exists
    /\ "defaults" \in DOMAIN file.sections
    /\ "deprecation_warnings" \in DOMAIN file.sections["defaults"]

KeyIsFalse(file) ==
    HasKey(file) /\ file.sections["defaults"]["deprecation_warnings"] = "False"

\* the key is missing or its value differs from 'False'
ChangeNeeded(file) == ~KeyIsFalse(file)

\* C7: from an existing config file without the deprecation_warnings key
\* and no backup, setup_ansible_cfg leaves a backup holding the original
\* and the key set to False under [defaults]; restore_ansible_cfg right
\* after it makes the config identical to the original and removes the
\* backup.
C7_PatchRestoreRoundTrip ==
    (orig.exists /\ ~HasKey(orig)) =>
        /\ (Len(calls) = 1 /\ calls[1].op = "setup") =>
              bak = orig /\ KeyIsFalse(cfg)
        /\ (Len(calls) = 2 /\ calls[1].op = "setup" /\ calls[2].op = "restore") =>
              cfg = orig /\ bak = NoFile

\* C8: setup_ansible_cfg on an existing file copies the file as it stood
\* to the backup exactly when a change is needed and otherwise leaves the
\* backup alone; restore_ansible_cfg with no backup leaves the config as it
\* was.
C8_BackupExactlyWhenChangeNeeded ==
    [][/\ (setup_ansible_cfg /\ cfg.exists) =>
            IF ChangeNeeded(cfg) THEN bak' = cfg ELSE bak' = bak
       /\ (restore_ansible_cfg /\ ~bak.exists) => cfg' = cfg]_vars

(***************************************************************************)
(* dns_ok: claims                                                          *)
(***************************************************************************)
\* C9: under every interleaving of caller and resolver thread, dns_ok
\* returns True only if its resolver posted a success while the caller was
\* still waiting; it returns False if the resolver posted a failure in that
\* time or if nothing was posted in that time; the caller waits no longer
\* than the timeout, which is 2 seconds when none is given, and every call
\* ends in True or False (nothing is raised).
C9_DnsOkResult ==
    \A i \in 1..Len(probes) :
        LET p == probes[i]
        IN  /\ p.result \in {"pending", "True", "False"}
            /\ p.result = "True" => p.in_time /\ p.posted = "True"
            /\ (p.result # "pending" /\ p.in_time /\ p.posted = "False") =>
                  p.result = "False"
            /\ (p.result # "pending" /\ ~p.in_time) =>
                  p.result = "False" /\ p.elapsed = p.timeout
            /\ p.elapsed <= p.timeout
            /\ p.given = 0 => p.timeout = 2
            /\ p.given # 0 => p.timeout = p.given

\* a call with no timeout given ended False after 2 seconds with nothing
\* posted, and its resolver posted a success afterwards
C9_Witness ==
    /\ Len(probes) >= 1
    /\ probes[1].given = 0
    /\ probes[1].result = "False"
    /\ probes[1].elapsed = 2
    /\ probes[1].posted = "True"
    /\ ~probes[1].in_time

(***************************************************************************)
(* check_ssh_access: claims                                                *)
(***************************************************************************)
FourFailures ==
    {"socket.timeout", "AuthenticationException", "SSHException",
     "NoValidConnectionsError"}

\* how often host h failed with one of the four failures
FailedCount(h) ==
    Cardinality({i \in 1..Len(attempts) :
                    attempts[i].hostname = h /\ attempts[i].outcome \in FourFailures})

Occurrences(h, sq) == Cardinality({i \in 1..Len(sq) : sq[i] = h})

Ascending(sq) ==
    \A i \in 1..Len(sq) : \A j \in i..Len(sq) : HostRank(sq[i]) <= HostRank(sq[j])

\* C10: the connect calls are the hosts of host_list in list order, one
\* call per entry; a timeout, an authentication failure, a protocol failure
\* or a no-valid-connection failure never ends the scan (only another
\* exception leaves it); and the value returned, once every entry has been
\* tried, is the ascending list of exactly the hosts that failed in one of
\* these four ways.
C10_ScanVisitsEveryHost ==
    /\ Len(attempts) <= Len(host_list)
    /\ \A i \in 1..Len(attempts) : attempts[i].hostname = host_list[i]
    /\ sshpc = "raised" =>
          attempts[Len(attempts)].outcome \notin FourFailures \cup {"ok"}
    /\ \A i \in 1..(Len(attempts) - 1) :
          attempts[i].outcome \in FourFailures \cup {"ok"}
    /\ sshpc = "returned" =>
          /\ Len(attempts) = Len(host_list)
          /\ Ascending(ssh_result)
          /\ \A h \in Hosts : Occurrences(h, ssh_result) = FailedCount(h)

\* a scan over three hosts has returned after failures of two kinds on the
\* first two and a success on the third, the result in ascending order
C10_Witness ==
    /\ sshpc = "returned"
    /\ host_list = <<"h2", "h1", "h2">>
    /\ attempts[1].outcome = "NoValidConnectionsError"
    /\ attempts[2].outcome = "socket.timeout"
    /\ attempts[3].outcome = "ok"
    /\ ssh_result = <<"h1", "h2">>

(***************************************************************************)
(* bytes2human: claims                                                     *)
(***************************************************************************)
B2hCalled == b2h_out # NotCalled

B2hReturned(str) == b2h_out = [exc |-> "none", value |-> str]

\* the call was bytes2human(n) for the non-negative count n, no target unit
B2hPlainCallOf(n) ==
    /\ B2hCalled
    /\ b2h_args = [in_bytes |-> [neg |-> FALSE, n |-> n], target_unit |-> "None"]

SuffixRank(unit) == CHOOSE i \in 1..Len(suffixes) : suffixes[i] = unit

\* a count of two digits hi, lo whose natural unit is the k-th suffix,
\* rounded by plain arithmetic on the two digits: to a whole number for
\* K, M, G and T, to tenths for P, a tie going up
TwoDigitRounded(k, hi, lo) ==
    IF suffixes[k] = "P"
    THEN LET tenths == (20 * lo + 1024) \div 2048
         IN  IF tenths = 10
             THEN ToString(hi + 1) \o ".0P"
             ELSE ToString(hi) \o "." \o ToString(tenths) \o "P"
    ELSE ToString(IF 2 * lo >= 1024 THEN hi + 1 ELSE hi) \o suffixes[k]

RoundedPerUnit ==
    \A k \in 1..Len(suffixes), hi \in HighDigits, lo \in LowDigits :
        B2hPlainCallOf(Num(k, hi, lo)) => B2hReturned(TwoDigitRounded(k, hi, lo))

\* C11 as stated: with no target unit bytes2human returns "1M" for 1024
\* bytes and "2M" for 1572864 bytes; K, M, G and T values are rounded to 0
\* decimal places, P values to 1.
C11_OneMegForOneKilobyte ==
    /\ B2hPlainCallOf(Num(1, 1, 0)) => B2hReturned("1M")
    /\ B2hPlainCallOf(Num(2, 1, 512)) => B2hReturned("2M")
    /\ RoundedPerUnit

\* C11 as amended: with no target unit bytes2human returns "1K" for 1024
\* bytes and "2M" for 1572864 bytes; K, M, G and T values are rounded to 0
\* decimal places, P values to 1.
C11_OneKiloForOneKilobyte ==
    /\ B2hPlainCallOf(Num(1, 1, 0)) => B2hReturned("1K")
    /\ B2hPlainCallOf(Num(2, 1, 512)) => B2hReturned("2M")
    /\ RoundedPerUnit

\* bytes2human(1572864) has returned "2M"
C11_Witness ==
    /\ B2hPlainCallOf(Num(2, 1, 512))
    /\ B2hReturned("2M")

\* the value n scaled to the unit and rounded as that unit is, as a string
ScaledTo(n, unit) ==
    Format(rounding(unit), Round(n, SuffixRank(unit), rounding(unit)), unit)

\* the first unit that brings n below 1024, 0 if none of the five does
NaturalRank(n) ==
    LET fit == {i \in 1..Len(suffixes) : SizeBelowDivisor(n, i)}
    IN  IF fit = {} THEN 0 ELSE CHOOSE i \in fit : \A j \in fit : i <= j

\* C12: for a non-negative count and a target unit among K, M, G, T, P the
\* result is the value scaled to that unit with that unit's letter; with
\* no target unit the letter is that of the unit that brings the value
\* below 1024; a negative count, and one still at or above 1024 at P,
\* raises ValueError.
C12_ForcedUnitOrNaturalUnit ==
    B2hCalled =>
        LET n    == b2h_args.in_bytes.n
            unit == b2h_args.target_unit
        IN  IF b2h_args.in_bytes.neg
            THEN b2h_out.exc = "ValueError"
            ELSE IF unit # "None"
            THEN B2hReturned(ScaledTo(n, unit))
            ELSE IF NaturalRank(n) = 0
            THEN b2h_out.exc = "ValueError"
            ELSE B2hReturned(ScaledTo(n, suffixes[NaturalRank(n)]))

(***************************************************************************)
(* expand_hosts: claims                                                    *)
(***************************************************************************)
ExpCalled == exp_out # NotCalled

ExpReturned(hosts) == exp_out = [exc |-> "none", hosts |-> hosts]

\* the line reads prefix[start-end]: a prefix without '[', then two
\* numbers in brackets with a '-' between them, and nothing after the ']'
IsRangeLine(line) ==
    /\ "[" \in Chars(line)
    /\ line[Len(line)] = "]"
    /\ \E j \in (IndexOf(line, "[") + 2)..(Len(line) - 2) :
          /\ line[j] = "-"
          /\ IsInt(SubSeq(line, IndexOf(line, "[") + 1, j - 1))
          /\ IsInt(SubSeq(line, j + 1, Len(line) - 1))

\* prefix+n for n from start to end, in ascending order
RangeEntries(line) ==
    LET i      == IndexOf(line, "[")
        j      == CHOOSE j \in (i + 2)..(Len(line) - 2) : line[j] = "-"
        first  == ParseInt(SubSeq(line, i + 1, j - 1))
        last   == ParseInt(SubSeq(line, j + 1, Len(line) - 1))
    IN  [k \in 1..(IF last >= first THEN last - first + 1 ELSE 0) |->
            SubSeq(line, 1, i - 1) \o StrOfInt(first + k - 1)]

\* what the claim gives for a line: a range is replaced by its entries, a
\* blank line is dropped, any other line is one entry
ClaimedEntries(line) ==
    IF line = <<>> THEN <<>>
    ELSE IF IsRangeLine(line) THEN RangeEntries(line)
    ELSE <<line>>

RECURSIVE ClaimedList(_)
ClaimedList(lines) ==
    IF lines = <<>> THEN <<>>
    ELSE ClaimedEntries(Head(lines)) \o ClaimedList(Tail(lines))

LinesOf(text) == Split(text, NewLine)

\* C13 as stated: expand_hosts returns the in-order list in which each line
\* prefix[start-end] is replaced by prefix+n for n from start to end, every
\* other non-blank line is one entry, and blank lines are dropped.
C13_EveryOtherLineKept ==
    ExpCalled => ExpReturned(ClaimedList(LinesOf(host_text)))

\* C13 as amended: the same for every text whose lines with a '[' all read
\* prefix[start-end]; a line with a '[' that does not read so is never kept
\* as an entry (no entry returned contains a '[').
C13_LinesWithoutBracketKept ==
    ExpCalled =>
        /\ (\A i \in 1..Len(LinesOf(host_text)) :
               "[" \in Chars(LinesOf(host_text)[i]) => IsRangeLine(LinesOf(host_text)[i]))
              => ExpReturned(ClaimedList(LinesOf(host_text)))
        /\ exp_out.exc = "none" =>
              \A i \in 1..Len(exp_out.hosts) : "[" \notin Chars(exp_out.hosts[i])

\* a blank line followed by node[1-3] has given node1, node2, node3
C13_Witness ==
    /\ host_text = <<NewLine, "n", "o", "d", "e", "[", "1", "-", "3", "]">>
    /\ ExpReturned(<<<<"n", "o", "d", "e", "1">>, <<"n", "o", "d", "e", "2">>,
                     <<"n", "o", "d", "e", "3">>>>)

\* how many connects have succeeded
OkCount == Cardinality({i \in 1..Len(attempts) : attempts[i].outcome = "ok"})

\* C17: the probe connection is closed exactly once after each successful
\* connect and never after a failed one: a connection is open only between
\* a successful connect and its close, which comes before the next host is
\* tried; the close() calls made are as many as the connects that succeeded
\* and closed; and when the function returns none is open and the closes
\* equal the successes.
C17_ClosedOncePerSuccess ==
    /\ connected <=> sshpc = "close"
    /\ sshpc = "close" =>
          /\ Len(attempts) = idx
          /\ attempts[idx].outcome = "ok"
    /\ closes = OkCount - (IF sshpc = "close" THEN 1 ELSE 0)
    /\ sshpc = "returned" => ~connected /\ closes = OkCount

\* a scan of three hosts has returned: two connects succeeded, one failed
\* in between, and close() was called twice
C17_Witness ==
    /\ sshpc = "returned"
    /\ Len(attempts) = 3
    /\ attempts[1].outcome = "ok"
    /\ attempts[2].outcome = "AuthenticationException"
    /\ attempts[3].outcome = "ok"
    /\ closes = 2
    /\ ~connected

\* the calls so far are one or more setup_ansible_cfg and then one
\* restore_ansible_cfg
SetupsThenRestore ==
    /\ Len(calls) >= 2
    /\ calls[Len(calls)].op = "restore"
    /\ \A i \in 1..(Len(calls) - 1) : calls[i].op = "setup"

\* C19: with an existing config file and no backup at the start, the
\* backup holds, whenever it exists, the content the config file had before
\* the first patch (further setup_ansible_cfg calls never overwrite it with
\* patched content), and a restore_ansible_cfg after one or more
\* setup_ansible_cfg calls leaves the config with its original content and
\* no backup.
C19_BackupIsOriginal ==
    orig.exists =>
        /\ bak.exists => bak = orig
        /\ SetupsThenRestore => cfg = orig /\ bak = NoFile

(***************************************************************************)
(* check_dns: claims                                                       *)
(***************************************************************************)
\* the probe's resolver posted a success while its caller was waiting
ResolvedInTime(p) == p.in_time /\ p.posted = "True"

\* how many entries of the scanned list name h and were not resolved in
\* time by their own probe
UnresolvedCount(h) ==
    Cardinality({k \in 1..Len(dns_scan.host_list) :
                    dns_scan.host_list[k] = h /\ ~ResolvedInTime(ScanProbe(k))})

\* C20: each dns_ok call has a queue and a resolver thread of its own and
\* the resolver posts at most once; what a call returns comes from its own
\* resolver's post in time and from nothing else, and a post made after the
\* caller timed out stays unread in its queue whatever calls follow; so
\* check_dns returns the sorted hosts whose own probe was not resolved in
\* time; and a caller that waits can always go on (another second, the item
\* posted, or the timeout), whatever its resolver does, as can the scan
\* between two probes.
C20_ProbesAreIsolated ==
    /\ \A i \in 1..Len(probes) :
          LET p == probes[i]
          IN  /\ p.thread # "done" => p.posted = "nothing" /\ p.q = <<>>
              /\ p.q # <<>> => p.q = <<p.posted>>
              /\ p.result # "pending" =>
                    p.result = (IF p.in_time THEN p.posted ELSE "False")
              /\ (p.posted # "nothing" /\ ~p.in_time) => p.q = <<p.posted>>
              /\ Waiting(i) => ENABLED (Tick(i) \/ QueueGet(i) \/ QueueEmpty(i))
    /\ (Scanning /\ \A i \in 1..Len(probes) : ~Waiting(i)) =>
          ENABLED (CheckDnsProbe \/ CheckDnsReturn)
    /\ dns_scan.pc = "returned" =>
          /\ Ascending(dns_scan.result)
          /\ \A h \in Hosts : Occurrences(h, dns_scan.result) = UnresolvedCount(h)

\* check_dns over h2, h1 has returned h2 alone: the probe of h2 timed out
\* after 2 seconds and its resolver posted a success afterwards, which is
\* still in its queue; the probe of h1 got its own success in time
C20_Witness ==
    /\ dns_scan.pc = "returned"
    /\ dns_scan.host_list = <<"h2", "h1">>
    /\ dns_scan.result = <<"h2">>
    /\ probes[1].result = "False"
    /\ probes[1].elapsed = 2
    /\ probes[1].q = <<"True">>
    /\ probes[2].result = "True"

====
